---- MODULE Spec2Model ----
(***************************************************************************)
(* src/main.rs of learn-rust-ir: the async fn foo() and the main() that    *)
(* drives it with futures::executor::block_on and prints its result.       *)
(*                                                                         *)
(* foo() is modelled as the coroutine rustc generates for it: a state      *)
(* discriminant (Unresumed / Suspend0 / Returned / Panicked), the locals   *)
(* saved in it, and one step per source statement of its body.  The        *)
(* `.await` of line 8 is the loop rustc desugars it to: poll the awaitee,  *)
(* go on when it is Ready, otherwise store Suspend0 and return Pending to  *)
(* whoever polled.  block_on is the executor loop: poll; return on Ready;  *)
(* otherwise park until the waker has been woken, then poll again.         *)
(***************************************************************************)
EXTENDS Integers, Sequences, FiniteSets, TLC

\* ---------------------------------------------------------------- bounds
\* How many times the program is started, one run after the other.
MaxRuns == 3
\* The awaited literal of line 8 ranges over 42 - ArgSpan .. 42 + ArgSpan and
\* the two ends of i32, so that what the await does with the value shows.
ArgSpan == 1

\* ---------------------------------------------------------------- values
I32_MAX == 2147483647
I32_MIN == -I32_MAX - 1

\* Option<T>
None == <<>>
Some(v) == <<v>>

\* `a + b` on i32 (overflow checks on): the sum, or None where it overflows
\* and the addition panics.
CheckedAdd(a, b) ==
    IF (b >= 0 /\ a <= I32_MAX - b) \/ (b < 0 /\ a >= I32_MIN - b)
      THEN Some(a + b)
      ELSE None

\* The literal futures::future::ready is given on line 8.
ReadyLiteral == 42

ReadyArgs == ((ReadyLiteral - ArgSpan)..(ReadyLiteral + ArgSpan)) \cup {I32_MIN, I32_MAX}

\* ---------------------------------------------------------------- state
VARIABLES
    readyArg,   \* the value line 8 hands to futures::future::ready
    runs,       \* the number of the current run of the program (1..MaxRuns)
    results,    \* history: the value foo() returned in each run so far
    mainPc,     \* main(): "entry", "block_on", "println", "return", "exited", "panicked"
    mainResult, \* main()'s local `result` (line 15)
    stdout,     \* the lines written to standard output in this run
    exitCode,   \* the process's exit status, once it has exited
    polls,      \* how often block_on has polled foo()'s future in this run
    unparked,   \* block_on's wake flag: set when the task's waker is woken
    pollRet,    \* what the last poll of foo()'s future returned:
                \*   "none" (not polled yet), "Pending", "Ready", "Panic"
    retVal,     \* the value carried by Poll::Ready
    state,      \* the coroutine's discriminant: "none" (not constructed),
                \*   "Unresumed", "Suspend0", "Returned", "Panicked"
    hist,       \* history: the discriminant values this coroutine has had
    pc,         \* where the body of foo() is executing: "idle" (not being
                \*   polled), "L4", "L5", "L8", "L8_poll", "L10", "L11"
    x, y, result, \* foo()'s locals (lines 4, 5, 10)
    awaitee,    \* the Ready<i32> future awaited on line 8: its Option<i32>
    awaited,    \* history: the value the `.await` expression evaluated to
    awaitPolls  \* history: how often the awaitee has been polled

mainVars == <<mainPc, mainResult, stdout, exitCode>>
execVars == <<polls, unparked, pollRet, retVal>>
taskVars == <<state, hist, pc, x, y, result, awaitee, awaited, awaitPolls>>
vars == <<readyArg, runs, results, mainPc, mainResult, stdout, exitCode,
          polls, unparked, pollRet, retVal,
          state, hist, pc, x, y, result, awaitee, awaited, awaitPolls>>

\* ---------------------------------------------------------------- formatting
Digit(d) ==
    CASE d = 0 -> "0" [] d = 1 -> "1" [] d = 2 -> "2" [] d = 3 -> "3"
      [] d = 4 -> "4" [] d = 5 -> "5" [] d = 6 -> "6" [] d = 7 -> "7"
      [] d = 8 -> "8" [] d = 9 -> "9"

RECURSIVE FmtNat(_)
FmtNat(n) == IF n < 10 THEN Digit(n) ELSE FmtNat(n \div 10) \o Digit(n % 10)

\* Display for i32: the decimal digits of the absolute value (taken as u32,
\* so that i32::MIN has one), after a '-' for a negative value.
FmtI32(n) ==
    IF n = I32_MIN THEN "-" \o FmtNat(I32_MAX \div 10) \o Digit((I32_MAX % 10) + 1)
    ELSE IF n < 0 THEN "-" \o FmtNat(-n)
    ELSE FmtNat(n)

\* format_args!("Result: {}", v): the line println! writes (line 16).
FormatLineDebug(v) == "Result: " \o "Ready(" \o FmtI32(v) \o ")"
FormatLine(v) == "Result: " \o FmtI32(v)

\* ---------------------------------------------------------------- foo()
\* line 4: let x = 1;   (LetXCarried: x starts from the previous run's result)
LetXCarried == IF results = <<>> THEN Some(1) ELSE Some(results[Len(results)])
LetX == Some(1)

\* line 5: let y = x + 2;   (LetYOverflow: the addend is i32::MAX;
\* LetYOfTen: the addend of line 10)
LetYOverflow == CheckedAdd(x[1], I32_MAX)
LetYOfTen == CheckedAdd(x[1], 10)
LetY == CheckedAdd(x[1], 2)

\* line 8: futures::future::ready(42) constructs Ready(Some(42)).
MakeReady == Some(readyArg)

\* line 8: <Ready<i32> as Future>::poll takes the value out of the Option and
\* returns Poll::Ready with it; polled again after that it panics.  It never
\* returns Poll::Pending and never touches the waker.
ReadyPollPending == "Pending"
ReadyPoll == IF awaitee # None THEN "Ready" ELSE "Panic"

\* line 10: let result = y + 10;   (LetResultOfAwait: adds to the awaited
\* value; LetResultOfX: adds to x)
LetResultOfAwait == CheckedAdd(awaited[1], 10)
LetResultOfX == CheckedAdd(x[1], 10)
LetResult == CheckedAdd(y[1], 10)

\* The coroutine `foo()` returns: nothing of its body has run.
FooCall ==
    /\ state' = "Unresumed"
    /\ hist' = <<"Unresumed">>
    /\ pc' = "idle"
    /\ x' = None /\ y' = None /\ result' = None
    /\ awaitee' = None /\ awaited' = None /\ awaitPolls' = 0

\* A panic inside the body: the coroutine is poisoned and the poll unwinds.
FooPanic ==
    /\ state' = "Panicked"
    /\ hist' = Append(hist, "Panicked")
    /\ pc' = "idle"
    /\ pollRet' = "Panic"

FooL4 ==
    /\ pc = "L4"
    /\ x' = LetX
    /\ pc' = "L5"
    /\ UNCHANGED <<readyArg, runs, results, mainVars, execVars,
                   state, hist, y, result, awaitee, awaited, awaitPolls>>

FooL5 ==
    /\ pc = "L5"
    /\ IF LetY = None
         THEN /\ FooPanic
              /\ UNCHANGED y
         ELSE /\ y' = LetY
              /\ pc' = "L8"
              /\ UNCHANGED <<state, hist, pollRet>>
    /\ UNCHANGED <<readyArg, runs, results, mainVars, polls, unparked, retVal,
                   x, result, awaitee, awaited, awaitPolls>>

\* line 8, first half: the awaitee is constructed and stored in the coroutine.
FooL8 ==
    /\ pc = "L8"
    /\ awaitee' = MakeReady
    /\ pc' = "L8_poll"
    /\ UNCHANGED <<readyArg, runs, results, mainVars, execVars,
                   state, hist, x, y, result, awaited, awaitPolls>>

\* line 8, second half: one turn of the loop `.await` stands for.
\*   Ready(v): the await expression evaluates to v, which the `;` drops.
\*   Pending:  the coroutine stores Suspend0 and returns Pending to its poller.
FooAwait ==
    /\ pc = "L8_poll"
    /\ awaitPolls' = awaitPolls + 1
    /\ CASE ReadyPoll = "Ready" ->
              /\ awaited' = awaitee
              /\ awaitee' = None
              /\ pc' = "L10"
              /\ UNCHANGED <<state, hist, pollRet>>
         [] ReadyPoll = "Pending" ->
              /\ state' = "Suspend0"
              /\ hist' = Append(hist, "Suspend0")
              /\ pc' = "idle"
              /\ pollRet' = "Pending"
              /\ UNCHANGED <<awaitee, awaited>>
         [] OTHER ->
              /\ FooPanic
              /\ UNCHANGED <<awaitee, awaited>>
    /\ UNCHANGED <<readyArg, runs, results, mainVars, polls, unparked, retVal,
                   x, y, result>>

FooL10 ==
    /\ pc = "L10"
    /\ IF LetResult = None
         THEN /\ FooPanic
              /\ UNCHANGED result
         ELSE /\ result' = LetResult
              /\ pc' = "L11"
              /\ UNCHANGED <<state, hist, pollRet>>
    /\ UNCHANGED <<readyArg, runs, results, mainVars, polls, unparked, retVal,
                   x, y, awaitee, awaited, awaitPolls>>

\* line 11: the tail expression; the poll returns Poll::Ready(result).
FooL11 ==
    /\ pc = "L11"
    /\ state' = "Returned"
    /\ hist' = Append(hist, "Returned")
    /\ pc' = "idle"
    /\ pollRet' = "Ready"
    /\ retVal' = result
    /\ results' = Append(results, result[1])
    /\ UNCHANGED <<readyArg, runs, mainVars, polls, unparked,
                   x, y, result, awaitee, awaited, awaitPolls>>

\* ---------------------------------------------------------------- block_on
\* The executor polls when it has not polled yet, or after a Pending once the
\* waker has been woken; it never polls after Ready.
BlockOnBusyPoll == pollRet # "Panic"
BlockOnShouldPoll == pollRet = "none" \/ (pollRet = "Pending" /\ unparked)

\* What block_on hands back to its caller.
BlockOnValueOfAwait == awaited
BlockOnValue == retVal

\* line 14-15: main() starts, calls foo() and enters block_on with its future.
MainEntry ==
    /\ mainPc = "entry"
    /\ FooCall
    /\ mainPc' = "block_on"
    /\ UNCHANGED <<readyArg, runs, results, mainResult, stdout, exitCode, execVars>>

\* line 15: block_on polls foo()'s future: the body resumes where the
\* discriminant says; a coroutine that has returned or panicked panics.
BlockOnPoll ==
    /\ mainPc = "block_on"
    /\ pc = "idle"
    /\ BlockOnShouldPoll
    /\ polls' = polls + 1
    /\ unparked' = FALSE
    /\ CASE state = "Unresumed" -> pc' = "L4" /\ UNCHANGED pollRet
         [] state = "Suspend0" -> pc' = "L8_poll" /\ UNCHANGED pollRet
         [] OTHER -> pc' = "idle" /\ pollRet' = "Panic"
    /\ UNCHANGED <<readyArg, runs, results, mainVars, retVal,
                   state, hist, x, y, result, awaitee, awaited, awaitPolls>>

\* line 15: the poll returned Ready: block_on returns the value and it is
\* bound to `result`; a panic in the poll unwinds through main().
BlockOnReturn ==
    /\ mainPc = "block_on"
    /\ pc = "idle"
    /\ pollRet \in {"Ready", "Panic"}
    /\ IF pollRet = "Ready"
         THEN mainPc' = "println" /\ mainResult' = BlockOnValue /\ UNCHANGED exitCode
         ELSE mainPc' = "panicked" /\ exitCode' = Some(101) /\ UNCHANGED mainResult
    /\ UNCHANGED <<readyArg, runs, results, stdout, execVars, taskVars>>

\* line 16: println!("Result: {}", result);
MainPrintln ==
    /\ mainPc = "println"
    /\ stdout' = Append(stdout, FormatLine(mainResult[1]))
    /\ mainPc' = "return"
    /\ UNCHANGED <<readyArg, runs, results, mainResult, exitCode, execVars, taskVars>>

\* line 17: main() returns; the process exits with status 0.
MainExit ==
    /\ mainPc = "return"
    /\ mainPc' = "exited"
    /\ exitCode' = Some(0)
    /\ UNCHANGED <<readyArg, runs, results, mainResult, stdout, execVars, taskVars>>

\* The program is started again: a new process, nothing kept but the history.
Rerun ==
    /\ mainPc = "exited"
    /\ runs < MaxRuns
    /\ runs' = runs + 1
    /\ mainPc' = "entry"
    /\ mainResult' = None
    /\ stdout' = <<>>
    /\ exitCode' = None
    /\ polls' = 0
    /\ unparked' = FALSE
    /\ pollRet' = "none"
    /\ retVal' = None
    /\ state' = "none"
    /\ hist' = <<>>
    /\ pc' = "idle"
    /\ x' = None /\ y' = None /\ result' = None
    /\ awaitee' = None /\ awaited' = None /\ awaitPolls' = 0
    /\ UNCHANGED <<readyArg, results>>

Init ==
    /\ readyArg \in ReadyArgs
    /\ runs = 1
    /\ results = <<>>
    /\ mainPc = "entry"
    /\ mainResult = None
    /\ stdout = <<>>
    /\ exitCode = None
    /\ polls = 0
    /\ unparked = FALSE
    /\ pollRet = "none"
    /\ retVal = None
    /\ state = "none"
    /\ hist = <<>>
    /\ pc = "idle"
    /\ x = None /\ y = None /\ result = None
    /\ awaitee = None /\ awaited = None /\ awaitPolls = 0

Next ==
    \/ MainEntry
    \/ BlockOnPoll
    \/ FooL4
    \/ FooL5
    \/ FooL8
    \/ FooAwait
    \/ FooL10
    \/ FooL11
    \/ BlockOnReturn
    \/ MainPrintln
    \/ MainExit
    \/ Rerun

Spec == Init /\ [][Next]_vars

\* One thread runs the whole program and nothing stops it: a step that can be
\* taken is taken.
FairSpec == Spec /\ WF_vars(Next)

\* ---------------------------------------------------------------- properties
Count(seq, v) == Cardinality({i \in DOMAIN seq : seq[i] = v})
IsPrefix(s, t) == Len(s) <= Len(t) /\ \A i \in DOMAIN s : s[i] = t[i]

\* The poll of foo()'s future has returned Ready: the invocation is complete.
Completed == state = "Returned" /\ pollRet = "Ready"

\* C1 as stated: every invocation of foo() that is driven to completion
\* returns 42.
C1_Returns42 == Completed => retVal = Some(42)

\* C1, amended: every invocation of foo() that is driven to completion returns
\* 13, and an invocation that has been polled to the end is complete (it has
\* not panicked).
C1_Returns13 ==
    /\ Completed => retVal = Some(13)
    /\ (pc = "idle" /\ polls > 0) => Completed

C1_Witness == Completed /\ retVal = Some(13) /\ mainPc = "block_on" /\ runs = 1

\* C2 as stated: when a run of main() has ended, standard output is exactly
\* the one line `Result: 42`.
C2_PrintsResult42 == mainPc \in {"exited", "panicked"} => stdout = <<"Result: 42">>

\* C2, amended: when a run of main() has ended, standard output is exactly the
\* one line `Result: 13`; at no time does it hold more than one line or a line
\* with another value, and no run ends in a panic.
C2_PrintsResult13 ==
    /\ mainPc \in {"exited", "panicked"} => stdout = <<"Result: 13">>
    /\ stdout \in {<<>>, <<"Result: 13">>}
    /\ mainPc # "panicked"

C2_Witness == mainPc = "exited" /\ stdout = <<"Result: 13">> /\ exitCode = Some(0)

\* C3: main() prints only after foo() has reached Returned; what it prints is
\* "Result: " followed by the value foo() returned; nothing is printed while
\* the coroutine is not constructed, Unresumed or Suspend0.
C3_PrintsReturnedValueAfterDone ==
    /\ state \in {"none", "Unresumed", "Suspend0"} => stdout = <<>>
    /\ stdout # <<>> =>
          /\ Completed
          /\ stdout = <<"Result: " \o FmtI32(retVal[1])>>
    /\ mainPc \in {"println", "return", "exited"} => Completed /\ mainResult = retVal

C3_Witness == mainPc = "return" /\ Len(stdout) = 1 /\ Completed

\* C4 as stated: every one of the invocations made one after the other
\* returns 42.
C4_EveryInvocation42 == \A i \in DOMAIN results : results[i] = 42

\* C4, amended: every one of the invocations made one after the other returns
\* 13, whatever the invocations before it returned, and each starts from a
\* coroutine that holds nothing of an earlier one.
C4_EveryInvocation13 ==
    /\ \A i \in DOMAIN results : results[i] = 13
    /\ Completed => Len(results) = runs
    /\ (state = "Unresumed" /\ pc = "idle") =>
          /\ x = None /\ y = None /\ result = None
          /\ awaitee = None /\ awaited = None
          /\ polls = 0 /\ pollRet = "none" /\ retVal = None

C4_Witness == Len(results) >= 2 /\ Completed /\ runs >= 2

\* C5 as stated: an invocation that has completed has entered Suspend0
\* exactly once.
C5_SuspendsExactlyOnce == Completed => Count(hist, "Suspend0") = 1

\* C5, amended: in every invocation foo() reaches its await point once and
\* passes it within the same poll: the awaited future is polled exactly once,
\* it never reports "not ready", and the coroutine never enters Suspend0 (it
\* suspends zero times, and is never resumed).
C5_NeverSuspends ==
    /\ Count(hist, "Suspend0") = 0
    /\ pollRet # "Pending"
    /\ awaitPolls <= 1
    /\ pc \in {"L10", "L11"} \/ Completed => awaitPolls = 1 /\ awaited = Some(readyArg)

C5_Witness == Completed /\ awaitPolls = 1 /\ Count(hist, "Suspend0") = 0

\* C6: every run of main() eventually has foo() in Returned and then prints
\* and exits with status 0; main() never gets past block_on before foo() has
\* returned, and never ends another way.
C6_RunsToCompletion ==
    /\ (mainPc = "entry") ~> (mainPc = "exited" /\ Completed /\ exitCode = Some(0))
    /\ [](mainPc \in {"println", "return", "exited"} => Completed)
    /\ [](mainPc # "panicked")

C6_Witness == mainPc = "exited" /\ Completed /\ exitCode = Some(0) /\ runs = MaxRuns

\* C7 as stated: the coroutine's discriminant only moves Unresumed -> Suspend0
\* -> Returned.
C7_StartSuspendedDone == IsPrefix(hist, <<"Unresumed", "Suspend0", "Returned">>)

\* C7, amended: the coroutine's discriminant only moves Unresumed -> Returned,
\* in one step: it never takes the value Suspend0, nothing leaves Returned,
\* nothing goes back to Unresumed, and no transition fails (Panicked is never
\* entered).
C7_StartDone ==
    /\ IsPrefix(hist, <<"Unresumed", "Returned">>)
    /\ state # "none" => hist # <<>> /\ hist[Len(hist)] = state
    /\ state = "none" => hist = <<>>

C7_Witness == hist = <<"Unresumed", "Returned">> /\ polls = 1

\* C8: the segment before the await sets x to 1 and y to 1 + 2; y is 1 + 2 for
\* as long as the body is at or past the await; the segment after it sets
\* result to (1 + 2) + 10, and that is the value foo() returns.
C8_FixedArithmetic ==
    /\ pc \in {"L5", "L8", "L8_poll", "L10", "L11"} => x = Some(1)
    /\ pc \in {"L8", "L8_poll", "L10", "L11"} \/ state \in {"Suspend0", "Returned"}
          => y = Some(1 + 2)
    /\ pc = "L11" => result = Some((1 + 2) + 10)
    /\ Completed => retVal = Some((1 + 2) + 10) /\ retVal = result

C8_Witness == pc = "L11" /\ y = Some(3) /\ result = Some(13)

\* C9: block_on polls foo()'s future at most once per run: once it has
\* returned Ready it has been polled exactly once, and it is not polled again.
C9_AtMostOnePoll ==
    /\ polls <= 1
    /\ pollRet = "Ready" => polls = 1
    /\ pollRet # "Panic"

C9_Witness == mainPc = "println" /\ polls = 1 /\ pollRet = "Ready"

\* C10: the await is a frame step: the value the awaited future produces is
\* the one it was constructed with, it reaches no local of foo(), y is the
\* same after the await as before it, and the value returned is the same for
\* every awaited value.
C10_AwaitIsFrame ==
    /\ [](pc \in {"L10", "L11"} => awaited = Some(readyArg) /\ y = Some(3) /\ x = Some(1))
    /\ [](Completed => retVal = Some(13))
    /\ [][pc = "L8_poll" => UNCHANGED <<x, y, result, retVal>>]_vars

C10_Witness == Completed /\ readyArg # ReadyLiteral /\ awaited = Some(readyArg) /\ retVal = Some(13)

====
